---- MODULE Spec2Model ----
(***************************************************************************)
(* Model of ResNet/ResNet.ipynb: ShortcutProjection, ResidualBlock,        *)
(* BottleneckResidualBlock and ResNetBase (construction and forward pass). *)
(* Tensors are abstracted to their shape and to the list of layers that    *)
(* produced them (hist), so that an identity and a projection differ.      *)
(***************************************************************************)
EXTENDS Integers, Sequences, FiniteSets, TLC

\* ---------------------------------------------------------------- bounds
MaxStages == 2      \* longest n_blocks / n_channels / bottlenecks list
MaxBlocks == 2      \* largest entry of n_blocks
MaxH      == 3      \* largest input height
MaxW      == 2      \* largest input width
MaxStride == 2      \* largest stride of a block constructed on its own

\* ------------------------------------------------- defaults of ResNetBase
img_channels_default      == 3
first_kernel_size_default == 7

KernelSizes == {4, first_kernel_size_default}
ImgChannels == {img_channels_default}
Batches     == {2}           \* batch sizes of the inputs
Widths      == {64, 128}     \* entries of n_channels
BottleWidths == {32, 64}     \* entries of bottlenecks

SeqsUpTo(S, n) == UNION {[1..m -> S] : m \in 0..n}

\* F applied to the values of its arguments, each evaluated once
Call1(F(_), a)          == CHOOSE r \in {F(v) : v \in {a}} : TRUE
Call2(F(_, _), a, b)    == CHOOSE r \in {F(v, w) : v \in {a}, w \in {b}} : TRUE

NoneOpt    == [some |-> FALSE, val |-> <<>>]
SomeOpt(v) == [some |-> TRUE, val |-> v]

\* ------------------------------------------------------ tensors and layers
Tensor(shape, hist) == [ok |-> TRUE, shape |-> shape, hist |-> hist]
Raised(x)           == [ok |-> FALSE, shape |-> <<>>, hist |-> x.hist]

Conv2d(in_channels, out_channels, kernel_size, stride, padding) ==
    [op |-> "Conv2d", in |-> in_channels, out |-> out_channels,
     k |-> kernel_size, s |-> stride, p |-> padding]

BatchNorm2d(channels) ==
    [op |-> "BatchNorm2d", in |-> channels, out |-> channels, k |-> 0, s |-> 0, p |-> 0]

ReLU == [op |-> "ReLU", in |-> 0, out |-> 0, k |-> 0, s |-> 0, p |-> 0]

NoLayer == [op |-> "unset", in |-> 0, out |-> 0, k |-> 0, s |-> 0, p |-> 0]

\* output extent of a convolution along one spatial axis
ConvOut(n, k, s, p) == ((n + 2 * p - k) \div s) + 1

\* x as returned by a module: hist names the module (owner is the position of
\* the block in self.blocks, -1 for ResNetBase itself) and its part
Stamp(x, owner, op) ==
    Call1(LAMBDA v : IF ~v.ok THEN v
                     ELSE Tensor(v.shape, Append(v.hist, [owner |-> owner, op |-> op])),
          x)

\* one layer applied to x
Apply_(layer, x) ==
    IF ~x.ok THEN x
    ELSE IF layer.op = "Conv2d" THEN
        IF \/ Len(x.shape) # 4
           \/ x.shape[2] # layer.in
           \/ x.shape[3] + 2 * layer.p < layer.k
           \/ x.shape[4] + 2 * layer.p < layer.k
        THEN Raised(x)
        ELSE Tensor(<<x.shape[1], layer.out,
                      ConvOut(x.shape[3], layer.k, layer.s, layer.p),
                      ConvOut(x.shape[4], layer.k, layer.s, layer.p)>>,
                    x.hist)
    ELSE IF layer.op = "BatchNorm2d" THEN
        IF Len(x.shape) # 4 \/ x.shape[2] # layer.in
        THEN Raised(x)
        ELSE x
    ELSE x

Apply(layer, x) == Call2(Apply_, layer, x)

\* nn.Sequential: the layers applied left to right
RECURSIVE ApplySeq(_, _)
ApplySeq(layers, x) ==
    Call2(LAMBDA ls, v : IF Len(ls) = 0 THEN v
                         ELSE ApplySeq(Tail(ls), Apply(Head(ls), v)),
          layers, x)

\* x + shortcut, with the tensor library's broadcasting
Add_(a, b) ==
    IF ~a.ok THEN a
    ELSE IF ~b.ok THEN Raised(a)
    ELSE IF \/ Len(a.shape) # Len(b.shape)
            \/ \E d \in 1..Len(a.shape) :
                  a.shape[d] # b.shape[d] /\ a.shape[d] # 1 /\ b.shape[d] # 1
    THEN Raised(a)
    ELSE Tensor([d \in 1..Len(a.shape) |->
                    IF a.shape[d] >= b.shape[d] THEN a.shape[d] ELSE b.shape[d]],
                a.hist)

Add(a, b) == Call2(Add_, a, b)

\* ------------------------------------------------------------------ blocks
\* A module is kept as the arguments it was constructed with; the layers its
\* constructor creates from them are given by the ..._layers operators.

\* ShortcutProjection.__init__
ShortcutProjection(in_channels, out_channels, stride) ==
    [type |-> "ShortcutProjection",
     in_channels |-> in_channels, out_channels |-> out_channels, stride |-> stride]

\* mutant: the projection forgets its stride
ShortcutProjection_layers_unstrided(in_channels, out_channels, stride) ==
    <<Conv2d(in_channels, out_channels, 1, 1, 0),
      BatchNorm2d(out_channels)>>

\* self.conv, self.bn of a ShortcutProjection
ShortcutProjection_layers(in_channels, out_channels, stride) ==
    <<Conv2d(in_channels, out_channels, 1, stride, 0),
      BatchNorm2d(out_channels)>>

\* nn.Identity()
Identity == [type |-> "Identity", in_channels |-> 0, out_channels |-> 0, stride |-> 0]

\* mutant: the stride is left out of the decision
NeedsProjection_channelsOnly(in_channels, out_channels, stride) ==
    in_channels # out_channels

\* mutant: the channel change is left out of the decision
NeedsProjection_strideOnly(in_channels, out_channels, stride) ==
    stride # 1

\* if stride != 1 or in_channels != out_channels
NeedsProjection(in_channels, out_channels, stride) ==
    stride # 1 \/ in_channels # out_channels

\* ResidualBlock.__init__
ResidualBlock(in_channels, out_channels, stride) ==
    [kind |-> "ResidualBlock",
     in_channels |-> in_channels, bottleneck_channels |-> 0,
     out_channels |-> out_channels, stride |-> stride,
     shortcut |-> IF NeedsProjection(in_channels, out_channels, stride)
                  THEN ShortcutProjection(in_channels, out_channels, stride)
                  ELSE Identity]

\* self.res of a ResidualBlock
ResidualBlock_res(in_channels, out_channels, stride) ==
    <<Conv2d(in_channels, out_channels, 3, stride, 1),
      BatchNorm2d(out_channels),
      ReLU,
      Conv2d(out_channels, out_channels, 3, 1, 1),
      BatchNorm2d(out_channels)>>

\* BottleneckResidualBlock.__init__
BottleneckResidualBlock(in_channels, bottleneck_channels, out_channels, stride) ==
    [kind |-> "BottleneckResidualBlock",
     in_channels |-> in_channels, bottleneck_channels |-> bottleneck_channels,
     out_channels |-> out_channels, stride |-> stride,
     shortcut |-> IF NeedsProjection(in_channels, out_channels, stride)
                  THEN ShortcutProjection(in_channels, out_channels, stride)
                  ELSE Identity]

\* mutant: the last convolution stays at the bottleneck width
BottleneckResidualBlock_res_narrow(in_channels, bottleneck_channels, out_channels, stride) ==
    <<Conv2d(in_channels, bottleneck_channels, 1, 1, 0),
      BatchNorm2d(bottleneck_channels),
      ReLU,
      Conv2d(bottleneck_channels, bottleneck_channels, 3, stride, 1),
      BatchNorm2d(bottleneck_channels),
      ReLU,
      Conv2d(bottleneck_channels, bottleneck_channels, 1, 1, 0),
      BatchNorm2d(bottleneck_channels)>>

\* self.res of a BottleneckResidualBlock
BottleneckResidualBlock_res(in_channels, bottleneck_channels, out_channels, stride) ==
    <<Conv2d(in_channels, bottleneck_channels, 1, 1, 0),
      BatchNorm2d(bottleneck_channels),
      ReLU,
      Conv2d(bottleneck_channels, bottleneck_channels, 3, stride, 1),
      BatchNorm2d(bottleneck_channels),
      ReLU,
      Conv2d(bottleneck_channels, out_channels, 1, 1, 0),
      BatchNorm2d(out_channels)>>

\* self.res of either block
ResLayers(block) ==
    IF block.kind = "ResidualBlock"
    THEN ResidualBlock_res(block.in_channels, block.out_channels, block.stride)
    ELSE BottleneckResidualBlock_res(block.in_channels, block.bottleneck_channels,
                                     block.out_channels, block.stride)

\* self.shortcut(x): nn.Identity returns x itself, ShortcutProjection.forward
\* returns self.bn(self.conv(x))
ShortcutForward(shortcut, x, owner) ==
    IF shortcut.type = "Identity" THEN x
    ELSE Stamp(ApplySeq(ShortcutProjection_layers(shortcut.in_channels,
                                                  shortcut.out_channels,
                                                  shortcut.stride), x),
               owner, "shortcut")

\* forward of either block: its input, the operands of the addition, the result
BlockForward(block, x, owner) ==
    Call2(LAMBDA shortcut, res :
              [input    |-> x,
               shortcut |-> shortcut,
               res      |-> res,
               out      |-> Stamp(Apply(ReLU, Add(res, shortcut)), owner, "act")],
          ShortcutForward(block.shortcut, x, owner),
          Stamp(ApplySeq(ResLayers(block), x), owner, "res"))

NoBlock == ResidualBlock(0, 0, 0)
NoTensor == [ok |-> FALSE, shape |-> <<>>, hist |-> <<>>]
NoForward == [input |-> NoTensor, shortcut |-> NoTensor, res |-> NoTensor]
Operands(f) == [input |-> f.input, shortcut |-> f.shortcut, res |-> f.res]

\* --------------------------------------------------------------- ResNetBase
\* mutant: the assertion on bottlenecks is missing
LengthsAgree_blocksOnly(n_blocks, n_channels, bottlenecks) ==
    Len(n_blocks) = Len(n_channels)

\* the two assertions that open ResNetBase.__init__
LengthsAgree(n_blocks, n_channels, bottlenecks) ==
    /\ Len(n_blocks) = Len(n_channels)
    /\ (~bottlenecks.some \/ Len(bottlenecks.val) = Len(n_channels))

\* mutant: every stage downsamples
FirstStride_perStage(blocks) == 2

\* stride = 2 if len(blocks) == 0 else 1
FirstStride(blocks) == IF Len(blocks) = 0 THEN 2 ELSE 1

\* mutant: the first block of a stage ignores prev_channels
FirstBlock_sameWidth(prev_channels, channels, bottlenecks, i, stride) ==
    IF ~bottlenecks.some
    THEN ResidualBlock(channels, channels, stride)
    ELSE BottleneckResidualBlock(channels, bottlenecks.val[i], channels, stride)

\* the first block of stage i
FirstBlock(prev_channels, channels, bottlenecks, i, stride) ==
    IF ~bottlenecks.some
    THEN ResidualBlock(prev_channels, channels, stride)
    ELSE BottleneckResidualBlock(prev_channels, bottlenecks.val[i], channels, stride)

\* mutant: the inner loop always appends the plain block
AdditionalBlock_plain(channels, bottlenecks, i) ==
    ResidualBlock(channels, channels, 1)

\* one of the blocks appended by the inner loop of stage i
AdditionalBlock(channels, bottlenecks, i) ==
    IF ~bottlenecks.some
    THEN ResidualBlock(channels, channels, 1)
    ELSE BottleneckResidualBlock(channels, bottlenecks.val[i], channels, 1)

\* mutant: range(n_blocks[i])
AdditionalRange_full(n) == 1..n

\* range(n_blocks[i] - 1)
AdditionalRange(n) == 1..(n - 1)

\* prev_channels = channels
NextPrevChannels(prev_channels, channels) == channels

\* the loop over enumerate(n_channels), from stage i on; an index past the
\* end of bottlenecks or n_blocks raises IndexError
RECURSIVE StageLoop(_, _, _, _, _, _)
StageLoop(i, blocks, prev_channels, n_blocks, n_channels, bottlenecks) ==
    IF i > Len(n_channels) THEN [raised |-> "none", blocks |-> blocks]
    ELSE IF bottlenecks.some /\ i > Len(bottlenecks.val)
         THEN [raised |-> "IndexError", blocks |-> blocks]
    ELSE LET channels == n_channels[i]
             stride   == FirstStride(blocks)
             first    == FirstBlock(prev_channels, channels, bottlenecks, i, stride)
         IN  IF i > Len(n_blocks)
             THEN [raised |-> "IndexError", blocks |-> Append(blocks, first)]
             ELSE LET more == [j \in AdditionalRange(n_blocks[i]) |->
                                  AdditionalBlock(channels, bottlenecks, i)]
                  IN  StageLoop(i + 1, Append(blocks, first) \o more,
                                NextPrevChannels(prev_channels, channels),
                                n_blocks, n_channels, bottlenecks)

\* nn.Sequential(*blocks): the modules named by their position
Sequential(blocks) ==
    [j \in 1..Len(blocks) |-> [name |-> j - 1, module |-> blocks[j]]]

\* the object left by ResNetBase.__init__: attrs is the set of attributes
\* assigned so far, raised the exception that ended the constructor
ResNetBase_init(n_blocks, n_channels, bottlenecks, img_channels, first_kernel_size) ==
    IF ~LengthsAgree(n_blocks, n_channels, bottlenecks)
    THEN [raised |-> "AssertionError", attrs |-> {},
          conv |-> NoLayer, bn |-> NoLayer, blocks |-> <<>>]
    ELSE IF Len(n_channels) = 0
    THEN [raised |-> "IndexError", attrs |-> {},
          conv |-> NoLayer, bn |-> NoLayer, blocks |-> <<>>]
    ELSE LET conv == Conv2d(img_channels, n_channels[1], first_kernel_size, 2,
                            first_kernel_size \div 2)
             bn   == BatchNorm2d(n_channels[1])
             loop == StageLoop(1, <<>>, n_channels[1], n_blocks, n_channels, bottlenecks)
         IN  IF loop.raised # "none"
             THEN [raised |-> loop.raised, attrs |-> {"conv", "bn"},
                   conv |-> conv, bn |-> bn, blocks |-> <<>>]
             ELSE [raised |-> "none", attrs |-> {"conv", "bn", "blocks"},
                   conv |-> conv, bn |-> bn, blocks |-> Sequential(loop.blocks)]

NoSelf == [raised |-> "none", attrs |-> {}, conv |-> NoLayer, bn |-> NoLayer, blocks |-> <<>>]

\* mutant: the modules are applied last to first
SequentialItem_reversed(modules, k) == modules[Len(modules) + 1 - k]

\* the module nn.Sequential applies at its k-th step
SequentialItem(modules, k) == modules[k]

\* the extent -1 stands for in a view: the product of the extents from d on
RECURSIVE Prod(_, _)
Prod(sh, d) == IF d > Len(sh) THEN 1 ELSE sh[d] * Prod(sh, d + 1)

\* x.view(x.shape[0], x.shape[1], -1)
View(x) ==
    IF ~x.ok \/ Len(x.shape) < 2 THEN Raised(x)
    ELSE IF x.shape[1] * x.shape[2] = 0 THEN Raised(x)
    ELSE Tensor(<<x.shape[1], x.shape[2], Prod(x.shape, 3)>>, x.hist)

\* x.mean(dim=-1)
Mean(x) ==
    IF ~x.ok \/ Len(x.shape) = 0 THEN Raised(x)
    ELSE Tensor(SubSeq(x.shape, 1, Len(x.shape) - 1), x.hist)

\* ------------------------------------------------------------------- state
VARIABLES
    pc,     \* "start", "built", "init_raised", "blocks", "done", "fwd_raised",
            \* "block_built", "block_done"
    cfg,    \* the arguments ResNetBase was constructed with
    self,   \* the ResNetBase object
    blk,    \* a block constructed on its own
    input,  \* the shape of the tensor the forward was called with
    x,      \* the local x of the forward in progress
    k,      \* position of nn.Sequential in self.blocks
    fwd     \* the last block forward: its input, both operands of the add, its result

vars == <<pc, cfg, self, blk, input, x, k, fwd>>

NoCfg == [n_blocks |-> <<>>, n_channels |-> <<>>, bottlenecks |-> NoneOpt,
          img_channels |-> 0, first_kernel_size |-> 0]

Init ==
    /\ pc = "start"
    /\ cfg = NoCfg
    /\ self = NoSelf
    /\ blk = NoBlock
    /\ input = <<>>
    /\ x = NoTensor
    /\ k = 0
    /\ fwd = NoForward

BlockCounts   == SeqsUpTo(0..MaxBlocks, MaxStages)
ChannelWidths == SeqsUpTo(Widths, MaxStages)
Bottlenecks   == {NoneOpt} \cup {SomeOpt(v) : v \in SeqsUpTo(BottleWidths, MaxStages)}

\* net = ResNetBase(n_blocks, n_channels, bottlenecks, img_channels, first_kernel_size)
Construct ==
    /\ pc = "start"
    /\ \E n_blocks \in BlockCounts, n_channels \in ChannelWidths,
          bottlenecks \in Bottlenecks, img_channels \in ImgChannels,
          first_kernel_size \in KernelSizes :
          /\ cfg' = [n_blocks |-> n_blocks, n_channels |-> n_channels,
                     bottlenecks |-> bottlenecks, img_channels |-> img_channels,
                     first_kernel_size |-> first_kernel_size]
          /\ self' = ResNetBase_init(n_blocks, n_channels, bottlenecks,
                                     img_channels, first_kernel_size)
          /\ pc' = IF self'.raised = "none" THEN "built" ELSE "init_raised"
    /\ UNCHANGED <<blk, input, x, k, fwd>>

\* ResNetBase.forward, x = self.bn(self.conv(x))
ForwardStem ==
    /\ pc = "built"
    /\ \E B \in Batches, H \in 1..MaxH, W \in 1..MaxW :
          /\ input' = <<B, cfg.img_channels, H, W>>
          /\ x' = Stamp(Apply(self.bn,
                         Stamp(Apply(self.conv, Tensor(input', <<>>)), -1, "conv")),
                         -1, "bn")
    /\ pc' = IF x'.ok THEN "blocks" ELSE "fwd_raised"
    /\ k' = 1
    /\ UNCHANGED <<cfg, self, blk, fwd>>

\* ResNetBase.forward, x = self.blocks(x): one module of the nn.Sequential
ForwardBlock ==
    /\ pc = "blocks"
    /\ k <= Len(self.blocks)
    /\ \E item \in {SequentialItem(self.blocks, k)} :
          \E r \in {BlockForward(item.module, x, item.name)} :
             fwd' = Operands(r) /\ x' = r.out
    /\ k' = k + 1
    /\ pc' = IF x'.ok THEN "blocks" ELSE "fwd_raised"
    /\ UNCHANGED <<cfg, self, blk, input>>

\* ResNetBase.forward, the view and the mean that end it
ForwardMean ==
    /\ pc = "blocks"
    /\ k > Len(self.blocks)
    /\ x' = Stamp(Mean(View(x)), -1, "mean")
    /\ pc' = IF x'.ok THEN "done" ELSE "fwd_raised"
    /\ UNCHANGED <<cfg, self, blk, input, k, fwd>>

\* a ResidualBlock constructed on its own
NewResidualBlock ==
    /\ pc = "start"
    /\ \E in_channels \in Widths, out_channels \in Widths,
          stride \in 1..MaxStride :
          blk' = ResidualBlock(in_channels, out_channels, stride)
    /\ pc' = "block_built"
    /\ UNCHANGED <<cfg, self, input, x, k, fwd>>

\* a BottleneckResidualBlock constructed on its own
NewBottleneckResidualBlock ==
    /\ pc = "start"
    /\ \E in_channels \in Widths, bottleneck_channels \in BottleWidths,
          out_channels \in Widths, stride \in 1..MaxStride :
          blk' = BottleneckResidualBlock(in_channels, bottleneck_channels,
                                         out_channels, stride)
    /\ pc' = "block_built"
    /\ UNCHANGED <<cfg, self, input, x, k, fwd>>

\* forward of the block constructed on its own
BlockCall ==
    /\ pc = "block_built"
    /\ \E B \in Batches, H \in 1..MaxH, W \in 1..MaxW :
          /\ input' = <<B, blk.in_channels, H, W>>
          /\ \E r \in {BlockForward(blk, Tensor(<<B, blk.in_channels, H, W>>, <<>>), 0)} :
                fwd' = Operands(r) /\ x' = r.out
    /\ pc' = IF x'.ok THEN "block_done" ELSE "fwd_raised"
    /\ UNCHANGED <<cfg, self, blk, k>>

Next ==
    \/ Construct
    \/ ForwardStem
    \/ ForwardBlock
    \/ ForwardMean
    \/ NewResidualBlock
    \/ NewBottleneckResidualBlock
    \/ BlockCall

Spec == Init /\ [][Next]_vars

TypeOK ==
    /\ pc \in {"start", "built", "init_raised", "blocks", "done", "fwd_raised",
               "block_built", "block_done"}
    /\ k \in 0..(MaxStages * (MaxBlocks + 1) + 1)

\* ------------------------------------------------------ terms of the claims
\* the constructor returned a network
Net == pc \in {"built", "blocks", "done"} \/ (pc = "fwd_raised" /\ cfg # NoCfg)

NumStages == Len(cfg.n_channels)
NumBlocks == Len(self.blocks)
Block(j)  == self.blocks[j].module

\* every stage has at least one block, as the block-count specification requires
ValidCounts ==
    /\ Len(cfg.n_blocks) = NumStages
    /\ \A i \in 1..NumStages : cfg.n_blocks[i] >= 1

RECURSIVE SumTo(_, _)
SumTo(seq, i) == IF i = 0 THEN 0 ELSE seq[i] + SumTo(seq, i - 1)

\* position in the block sequence of the first block of stage i, and the
\* positions of all the blocks of stage i, when the counts are valid
StageStart(i)  == SumTo(cfg.n_blocks, i - 1) + 1
StageBlocks(i) == StageStart(i)..(StageStart(i) + cfg.n_blocks[i] - 1)

\* a block forward of the network has taken place
BlockRan == Net /\ fwd # NoForward

\* ------------------------------------------------------------------ claims

\* C1: in a network built by ResNetBase, at the addition of every block the
\* transformed path and the shortcut path have the same shape (batch, channel
\* count, height, width), for projection and identity shortcuts alike.
C1_PathsSameShape ==
    BlockRan =>
        /\ fwd.res.ok
        /\ fwd.shortcut.ok
        /\ fwd.res.shape = fwd.shortcut.shape

\* a strided projection block has run and halved the input's height
C1_Witness ==
    /\ BlockRan
    /\ fwd.res.ok /\ fwd.shortcut.ok /\ fwd.input.ok
    /\ fwd.shortcut # fwd.input
    /\ fwd.res.shape[3] < fwd.input.shape[3]
    /\ fwd.res.shape = fwd.shortcut.shape

\* C2: stride 2 is used by exactly one block, the first block constructed
\* (first block of stage 0); the first block of every later stage and every
\* additional block use stride 1.
C2_StrideTwoOnce ==
    Net =>
        /\ NumBlocks >= 1
        /\ Block(1).stride = 2
        /\ \A j \in 2..NumBlocks : Block(j).stride = 1
        /\ ValidCounts => \A i \in 2..NumStages : Block(StageStart(i)).stride = 1

C2_Witness ==
    /\ Net
    /\ NumStages = 2
    /\ cfg.n_blocks = <<2, 2>>
    /\ Block(1).stride = 2
    /\ Block(StageStart(2)).stride = 1

\* C3: for valid block counts and channel widths of equal length the build
\* succeeds, the block sequence has sum(block_counts) blocks, and stage i
\* contributes block_counts[i] consecutive blocks, in stage order.
C3_BlockCount ==
    (/\ cfg # NoCfg
     /\ NumStages >= 1
     /\ ValidCounts
     /\ (cfg.bottlenecks.some => Len(cfg.bottlenecks.val) = NumStages))
    =>
        /\ pc # "init_raised"
        /\ self.raised = "none"
        /\ NumBlocks = SumTo(cfg.n_blocks, NumStages)
        /\ \A i \in 1..NumStages : \A j \in StageBlocks(i) :
              /\ j \in 1..NumBlocks
              /\ Block(j).out_channels = cfg.n_channels[i]

C3_Witness ==
    /\ Net
    /\ cfg.n_blocks = <<2, 1>>
    /\ cfg.n_channels[1] # cfg.n_channels[2]
    /\ NumBlocks = 3

\* C4: a build whose block counts and channel widths differ in length, or whose
\* bottleneck widths are supplied with another length than the channel widths,
\* fails on the length assertion, before the stem or any block is constructed,
\* and produces no network.
C4_MismatchRaises ==
    (/\ cfg # NoCfg
     /\ \/ Len(cfg.n_blocks) # Len(cfg.n_channels)
        \/ (cfg.bottlenecks.some /\ Len(cfg.bottlenecks.val) # Len(cfg.n_channels)))
    =>
        /\ pc = "init_raised"
        /\ self.raised = "AssertionError"
        /\ self.attrs = {}
        /\ self.blocks = <<>>

C4_Witness ==
    /\ pc = "init_raised"
    /\ self.raised = "AssertionError"
    /\ Len(cfg.n_blocks) = Len(cfg.n_channels)
    /\ cfg.bottlenecks.some
    /\ Len(cfg.bottlenecks.val) # Len(cfg.n_channels)

C6_ChannelChain ==
    Net =>
        /\ self.conv.out = cfg.n_channels[1]
        /\ Block(1).in_channels = self.conv.out
        /\ \A j \in 2..NumBlocks : Block(j).in_channels = Block(j - 1).out_channels
        /\ ValidCounts =>
              \A i \in 1..NumStages :
                 /\ \A j \in StageBlocks(i) : Block(j).out_channels = cfg.n_channels[i]
                 /\ i > 1 => Block(StageStart(i)).in_channels = cfg.n_channels[i - 1]

C6_Witness ==
    /\ Net
    /\ NumStages = 2
    /\ ValidCounts
    /\ cfg.n_blocks[2] = 2
    /\ cfg.n_channels[1] # cfg.n_channels[2]
    /\ Block(StageStart(2)).in_channels = cfg.n_channels[1]
    /\ Block(StageStart(2)).out_channels = cfg.n_channels[2]

\* the shortcut a block with these arguments must have
C7_Expected(b) ==
    IF b.stride # 1 \/ b.in_channels # b.out_channels
    THEN [type |-> "ShortcutProjection", in_channels |-> b.in_channels,
          out_channels |-> b.out_channels, stride |-> b.stride]
    ELSE [type |-> "Identity", in_channels |-> 0, out_channels |-> 0, stride |-> 0]

\* C7: a ResidualBlock or BottleneckResidualBlock has a
\* ShortcutProjection(in_channels, out_channels, stride) exactly when
\* stride != 1 or in_channels != out_channels, whatever bottleneck_channels is;
\* otherwise its shortcut returns the input tensor itself.
C7_ShortcutChoice ==
    /\ pc \in {"block_built", "block_done"} => blk.shortcut = C7_Expected(blk)
    /\ Net => \A j \in 1..NumBlocks : Block(j).shortcut = C7_Expected(Block(j))
    /\ pc = "block_done" =>
          /\ fwd.shortcut.ok
          /\ (blk.stride = 1 /\ blk.in_channels = blk.out_channels)
                => fwd.shortcut = fwd.input
          /\ (blk.stride # 1 \/ blk.in_channels # blk.out_channels)
                => fwd.shortcut.hist = Append(fwd.input.hist, [owner |-> 0, op |-> "shortcut"])

C7_Witness ==
    /\ pc = "block_done"
    /\ blk.kind = "BottleneckResidualBlock"
    /\ blk.stride = 1 /\ blk.in_channels = blk.out_channels
    /\ blk.bottleneck_channels # blk.in_channels
    /\ blk.shortcut.type = "Identity"
    /\ fwd.shortcut = fwd.input

\* C8: without bottleneck widths every block is a ResidualBlock; with them
\* every block is a BottleneckResidualBlock and the blocks of stage i use
\* bottlenecks[i]; a network never mixes the two.
C8_VariantSelection ==
    Net =>
        /\ ~cfg.bottlenecks.some =>
              \A j \in 1..NumBlocks : Block(j).kind = "ResidualBlock"
        /\ cfg.bottlenecks.some =>
              /\ \A j \in 1..NumBlocks : Block(j).kind = "BottleneckResidualBlock"
              /\ ValidCounts =>
                    \A i \in 1..NumStages : \A j \in StageBlocks(i) :
                       Block(j).bottleneck_channels = cfg.bottlenecks.val[i]

C8_Witness ==
    /\ Net
    /\ cfg.bottlenecks.some
    /\ cfg.n_blocks = <<2, 2>>
    /\ cfg.bottlenecks.val[1] # cfg.bottlenecks.val[2]
    /\ \A j \in 1..NumBlocks : Block(j).kind = "BottleneckResidualBlock"

\* C9: the first block of the network has a projection shortcut of stride 2
\* between equal widths; the first block of a stage i > 0 has a projection
\* shortcut, of stride 1, exactly when n_channels[i] != n_channels[i-1]; every
\* additional block has an identity shortcut.
C9_ProjectionPlacement ==
    Net =>
        /\ Block(1).shortcut.type = "ShortcutProjection"
        /\ Block(1).shortcut.stride = 2
        /\ Block(1).shortcut.in_channels = cfg.n_channels[1]
        /\ Block(1).shortcut.out_channels = cfg.n_channels[1]
        /\ ValidCounts =>
              \A i \in 1..NumStages :
                 /\ i > 1 =>
                       /\ Block(StageStart(i)).shortcut.type = "ShortcutProjection"
                             <=> cfg.n_channels[i] # cfg.n_channels[i - 1]
                       /\ Block(StageStart(i)).shortcut.type = "ShortcutProjection"
                             => Block(StageStart(i)).shortcut.stride = 1
                 /\ \A j \in StageBlocks(i) \ {StageStart(i)} :
                       Block(j).shortcut.type = "Identity"

C9_Witness ==
    /\ Net
    /\ ValidCounts
    /\ NumStages = 2
    /\ cfg.n_blocks[1] = 2
    /\ cfg.n_channels[1] # cfg.n_channels[2]
    /\ Block(StageStart(2)).shortcut.type = "ShortcutProjection"
    /\ Block(StageStart(2)).shortcut.stride = 1
    /\ Block(2).shortcut.type = "Identity"

\* C10: a forward pass applies the stem's convolution and normalization, then
\* every block once in construction order, then the spatial mean; in a block
\* both paths start from the block's input and the rectified sum continues the
\* transformed path.
C10_ForwardOrder ==
    /\ BlockRan =>
          /\ fwd.res.hist = Append(fwd.input.hist, [owner |-> k - 2, op |-> "res"])
          /\ \/ fwd.shortcut = fwd.input
             \/ fwd.shortcut.hist =
                   Append(fwd.input.hist, [owner |-> k - 2, op |-> "shortcut"])
          /\ pc = "blocks" =>
                x.hist = Append(fwd.res.hist, [owner |-> k - 2, op |-> "act"])
    /\ (Net /\ pc = "blocks") =>
          /\ Len(x.hist) = 2 * k
          /\ \A j \in 1..(k - 1) :
                /\ x.hist[2 * j + 1] = [owner |-> j - 1, op |-> "res"]
                /\ x.hist[2 * j + 2] = [owner |-> j - 1, op |-> "act"]
    /\ (Net /\ pc = "done") =>
          /\ Len(x.hist) = 2 * NumBlocks + 3
          /\ x.hist[1] = [owner |-> -1, op |-> "conv"]
          /\ x.hist[2] = [owner |-> -1, op |-> "bn"]
          /\ \A j \in 1..NumBlocks :
                /\ x.hist[2 * j + 1] = [owner |-> j - 1, op |-> "res"]
                /\ x.hist[2 * j + 2] = [owner |-> j - 1, op |-> "act"]
          /\ x.hist[2 * NumBlocks + 3] = [owner |-> -1, op |-> "mean"]

C10_Witness ==
    /\ Net
    /\ pc = "done"
    /\ cfg.n_blocks = <<2, 2>>
    /\ NumBlocks = 4
    /\ Len(x.hist) = 11
====
